---------------------------- MODULE Spec2Model ----------------------------
(***************************************************************************)
(* A model of .github/scripts/scrape_ptt.py: the PTT address scraper.      *)
(*                                                                         *)
(* Text is a sequence of one-character strings.  A character outside ASCII *)
(* is written by its code point ("U+0130" is the dotted capital I), and an *)
(* HTML character reference is one symbol ("&#47;") until html.unescape    *)
(* decodes it.  A page is a record of what the code's patterns read from   *)
(* the markup: the HTTP status, the two hidden state fields and the three  *)
(* select blocks, each a sequence of <option value="V">L</option> items.   *)
(***************************************************************************)
EXTENDS Naturals, Sequences, FiniteSets

(***************************************************************************)
(* Bounds of the model.                                                    *)
(***************************************************************************)
\* options the server puts into all the select blocks of one run, in total
MaxOptions == 4
\* length of an identifier handed to clean_id on its own
MaxIdLen == 3
\* length of a neighborhood label handed to the label post-step on its own
MaxLabelLen == 7
\* options of the select block handed to a list parser on its own
MaxSelectLen == 3

(***************************************************************************)
(* Characters.                                                             *)
(***************************************************************************)
None == <<>>

Digits == {"0", "1", "2", "3", "4", "5", "6", "7", "8", "9"}

UpperLetters ==
  <<"A", "B", "C", "D", "E", "F", "G", "H", "I", "J", "K", "L", "M",
    "N", "O", "P", "Q", "R", "S", "T", "U", "V", "W", "X", "Y", "Z">>

LowerLetters ==
  <<"a", "b", "c", "d", "e", "f", "g", "h", "i", "j", "k", "l", "m",
    "n", "o", "p", "q", "r", "s", "t", "u", "v", "w", "x", "y", "z">>

Range(f) == {f[i] : i \in DOMAIN f}

\* what '\s' matches
Whitespace == {" ", "\t", "\n"}

\* TURKISH_LOWERCASE: dotted capital I, I, G breve, S cedilla, C cedilla,
\* O diaeresis, U diaeresis, each to its Turkish lower-case letter
TURKISH_LOWERCASE ==
  [c \in {"U+0130", "I", "U+011E", "U+015E", "U+00C7", "U+00D6", "U+00DC"} |->
     CASE c = "U+0130" -> "i"
       [] c = "I"      -> "U+0131"
       [] c = "U+011E" -> "U+011F"
       [] c = "U+015E" -> "U+015F"
       [] c = "U+00C7" -> "U+00E7"
       [] c = "U+00D6" -> "U+00F6"
       [] c = "U+00DC" -> "U+00FC"]

\* str.lower() of one character (ASCII letters; any other character of the
\* model has no other lower-case form)
char_lower(c) ==
  IF c \in Range(UpperLetters)
    THEN LowerLetters[CHOOSE i \in DOMAIN UpperLetters : UpperLetters[i] = c]
    ELSE c

\* the character references html.unescape decodes in the model
EntityTable ==
  [e \in {"&amp;", "&#47;", "&#39;"} |->
     CASE e = "&amp;" -> "&"
       [] e = "&#47;" -> "/"
       [] e = "&#39;" -> "'"]

html_unescape(text) ==
  [i \in 1..Len(text) |->
     IF text[i] \in DOMAIN EntityTable THEN EntityTable[text[i]] ELSE text[i]]

(***************************************************************************)
(* String helpers: str.strip, str.split, ' '.join, re.sub(r'\s+', ' ').    *)
(***************************************************************************)
RECURSIVE lstrip(_)
lstrip(s) ==
  IF s # <<>> /\ Head(s) \in Whitespace THEN lstrip(Tail(s)) ELSE s

RECURSIVE rstrip(_)
rstrip(s) ==
  IF s # <<>> /\ s[Len(s)] \in Whitespace
    THEN rstrip(SubSeq(s, 1, Len(s) - 1))
    ELSE s

strip(s) == rstrip(lstrip(s))

\* re.sub(r'\s+', ' ', s): every maximal whitespace run becomes one space
RECURSIVE collapse_spaces(_)
collapse_spaces(s) ==
  IF s = <<>> THEN <<>>
  ELSE IF Head(s) \in Whitespace
    THEN <<" ">> \o collapse_spaces(lstrip(s))
    ELSE <<Head(s)>> \o collapse_spaces(Tail(s))

\* the first word of a string that starts with a non-whitespace character
RECURSIVE first_word(_)
first_word(s) ==
  IF s = <<>> \/ Head(s) \in Whitespace THEN <<>>
  ELSE <<Head(s)>> \o first_word(Tail(s))

\* str.split(): the maximal runs of non-whitespace characters
RECURSIVE split(_)
split(s) ==
  LET t == lstrip(s)
      w == first_word(t)
  IN IF t = <<>> THEN <<>>
     ELSE <<w>> \o split(SubSeq(t, Len(w) + 1, Len(t)))

\* ' '.join(words)
RECURSIVE join(_)
join(words) ==
  IF words = <<>> THEN <<>>
  ELSE IF Len(words) = 1 THEN words[1]
  ELSE words[1] \o <<" ">> \o join(Tail(words))

(***************************************************************************)
(* capitalize_first_letter, clean_text, clean_id.                          *)
(***************************************************************************)
capitalize_word(word) ==
  [i \in 1..Len(word) |->
     IF i = 1 THEN word[1]
     ELSE IF word[i] \in DOMAIN TURKISH_LOWERCASE
       THEN TURKISH_LOWERCASE[word[i]]
       ELSE char_lower(word[i])]

capitalize_first_letter(text) ==
  LET words == split(strip(text))
  IN join([i \in 1..Len(words) |-> capitalize_word(words[i])])

clean_text(text) ==
  capitalize_first_letter(collapse_spaces(strip(html_unescape(text))))

\* [a-zA-Z0-9_]
IdChars == Range(LowerLetters) \cup Range(UpperLetters) \cup Digits \cup {"_"}

\* str.replace: every occurrence of one character by another
replace_char(s, old, new) ==
  [i \in 1..Len(s) |-> IF s[i] = old THEN new ELSE s[i]]

\* a pattern that forgets the underscore: r'[^a-zA-Z0-9]'
clean_id_strip_loose(s) == SelectSeq(s, LAMBDA c : c \in IdChars \ {"_"})

\* re.sub(r'[^a-zA-Z0-9_]', '', s)
clean_id_strip(s) == SelectSeq(s, LAMBDA c : c \in IdChars)

clean_id(id_str) ==
  clean_id_strip(replace_char(replace_char(id_str, "\\", "_"), "/", "_"))

(***************************************************************************)
(* The neighborhood-label post-step of get_neighborhoods.                  *)
(***************************************************************************)
\* the digits of r'(\d{5})'
PostalLen == 5

all_in(s, from, to, chars) == \A i \in from..to : s[i] \in chars

\* a search that returns the rightmost run of PostalLen digits instead
search_postal_last(s) ==
  LET hits == {i \in 1..Len(s) : i + PostalLen - 1 <= Len(s)
                                 /\ all_in(s, i, i + PostalLen - 1, Digits)}
  IN IF hits = {} THEN None
     ELSE LET i == CHOOSE h \in hits : \A g \in hits : g <= h
          IN SubSeq(s, i, i + PostalLen - 1)

\* re.search(r'(\d{5})', s): the leftmost run of PostalLen digits, or None
search_postal(s) ==
  LET hits == {i \in 1..Len(s) : i + PostalLen - 1 <= Len(s)
                                 /\ all_in(s, i, i + PostalLen - 1, Digits)}
  IN IF hits = {} THEN None
     ELSE LET i == CHOOSE h \in hits : \A g \in hits : h <= g
          IN SubSeq(s, i, i + PostalLen - 1)

\* the first index at or after i that holds no whitespace (Len(s) + 1 if none)
first_non_space(s, i) ==
  LET rest == {j \in i..Len(s) : s[j] \notin Whitespace}
  IN IF rest = {} THEN Len(s) + 1
     ELSE CHOOSE j \in rest : \A k \in rest : j <= k

\* r'\s*.*$' right after the "/" at j: the whitespace run, then characters
\* other than a newline up to the end of the string or to its final newline
slash_tail_matches(s, j) ==
  LET r == first_non_space(s, j + 1)
  IN \A k \in r..Len(s) : s[k] = "\n" => k = Len(s)

\* where r'\s*/\s*.*$' can start: whitespace from i up to a "/" whose tail matches
slash_match_starts(s) ==
  {i \in 1..Len(s) :
     LET j == first_non_space(s, i)
     IN j <= Len(s) /\ s[j] = "/" /\ slash_tail_matches(s, j)}

\* a substitution that removes only what follows the "/"
cut_at_slash_keep_slash(s) ==
  LET starts == slash_match_starts(s)
  IN IF starts = {} THEN s
     ELSE LET i == CHOOSE a \in starts : \A b \in starts : a <= b
          IN SubSeq(s, 1, first_non_space(s, i))

\* re.sub(r'\s*/\s*.*$', '', s): the leftmost match is removed; a final newline
\* that '$' matched in front of stays
cut_at_slash(s) ==
  LET starts == slash_match_starts(s)
  IN IF starts = {} THEN s
     ELSE LET i == CHOOSE a \in starts : \A b \in starts : a <= b
              j == first_non_space(s, i)
              r == first_non_space(s, j + 1)
              kept == IF r <= Len(s) /\ s[Len(s)] = "\n" THEN <<"\n">> ELSE <<>>
          IN SubSeq(s, 1, i - 1) \o kept

\* the body of the loop over the matched options
neighborhood_record(neighborhood_id, neighborhood_name) ==
  LET cleaned_name == clean_text(neighborhood_name)
  IN [mahalle_id  |-> clean_id(neighborhood_id),
      mahalle_adi |-> cut_at_slash(cleaned_name),
      posta_kodu  |-> search_postal(cleaned_name)]

(***************************************************************************)
(* Pages.  A hidden field is <<>> when the markup holds no such field,     *)
(* <<0>> when its value is empty and <<n>> when its value is token n.  A   *)
(* select block is present or not, and holds its options in markup order.  *)
(***************************************************************************)
NoField == <<>>
EmptyField == <<0>>

NoSelect == [present |-> FALSE, options |-> <<>>]

Select(opts) == [present |-> TRUE, options |-> opts]

Option(v, l) == [value |-> v, label |-> l]

\* the value of the default option
Placeholder == <<"-", "1">>

\* response.raise_for_status(): raises on a 4xx or 5xx status
raise_for_status_never(response) == FALSE

raise_for_status(response) == response.status >= 400

\* one hidden field as r'__VIEWSTATE" value="([^"]+)"' reads it
hidden_value(f) == IF f = NoField \/ f = EmptyField THEN None ELSE f

extract_viewstate_and_validation(html) ==
  <<hidden_value(html.viewstate), hidden_value(html.eventvalidation)>>

\* r'(\d+)'
is_digits(v) == v # <<>> /\ \A i \in 1..Len(v) : v[i] \in Digits

\* r'<option value="(\d+)">([^<]+)</option>'
numeric_option(o) == is_digits(o.value) /\ o.label # <<>>

\* r'<option value="([^"]+)">([^<]+)</option>'
any_option(o) == o.value # <<>> /\ o.label # <<>>

\* the default option is the one whose value is '-1'
is_default_never(id) == FALSE

is_default(id) == id = Placeholder

\* re.findall over the block, then the filter on '-1'
numeric_matches(block) ==
  LET matches == SelectSeq(block.options, numeric_option)
      kept == SelectSeq(matches, LAMBDA o : ~is_default(o.value))
  IN [i \in 1..Len(kept) |-> <<kept[i].value, kept[i].label>>]

get_provinces(html) ==
  [raised    |-> ~html.DropDownList1.present,
   provinces |-> numeric_matches(html.DropDownList1)]

get_districts(province_id, html) ==
  IF ~html.DropDownList2.present THEN <<>>
  ELSE numeric_matches(html.DropDownList2)

\* the form of a POST: the event target, the two state fields, the selections
FormData(target, viewstate, eventvalidation, il, ilce) ==
  [EVENTTARGET |-> target, VIEWSTATE |-> viewstate,
   EVENTVALIDATION |-> eventvalidation, DropDownList1 |-> il,
   DropDownList2 |-> ilce]

NoForm == <<>>

\* the early return of get_neighborhoods when a state token is missing
on_missing_tokens_raise ==
  [posted |-> NoForm, raised |-> TRUE, neighborhoods |-> <<>>]

on_missing_tokens ==
  [posted |-> NoForm, raised |-> FALSE, neighborhoods |-> <<>>]

\* get_neighborhoods, given the response the server gives to its POST: the form
\* it posted (<<>> if none), whether it raised, and the list it returns
get_neighborhoods(province_id, district_id, district_html, response) ==
  LET tokens == extract_viewstate_and_validation(district_html)
      form == FormData("DropDownList2", tokens[1], tokens[2],
                       province_id, district_id)
      matches == SelectSeq(response.DropDownList3.options, any_option)
      kept == SelectSeq(matches, LAMBDA o : ~is_default(o.value))
  IN IF tokens[1] = None \/ tokens[2] = None
       THEN on_missing_tokens
     ELSE IF raise_for_status(response)
       THEN [posted |-> <<form>>, raised |-> TRUE, neighborhoods |-> <<>>]
     ELSE IF ~response.DropDownList3.present
       THEN [posted |-> <<form>>, raised |-> FALSE, neighborhoods |-> <<>>]
     ELSE [posted |-> <<form>>, raised |-> FALSE,
           neighborhoods |->
             [i \in 1..Len(kept) |->
                neighborhood_record(kept[i].value, kept[i].label)]]

\* scrape() after a province POST: the state fields of the response replace
\* the ones held
next_tokens_stale(held, html) == held

next_tokens(held, html) == extract_viewstate_and_validation(html)

\* the update of address_data after a district: heap holds the province
\* records, address_data refers to them, current_province is the one being built
update_address_data_append(address_data, heap, current_province, province_id) ==
  Append(address_data, current_province)

update_address_data(address_data, heap, current_province, province_id) ==
  IF address_data = <<>> THEN Append(address_data, current_province)
  ELSE IF heap[address_data[Len(address_data)]].il_id = province_id
    THEN [address_data EXCEPT ![Len(address_data)] = current_province]
    ELSE Append(address_data, current_province)

(***************************************************************************)
(* What the server may answer.                                             *)
(***************************************************************************)
ADANA == <<"A", "D", "A", "N", "A">>
AGRI == <<"A", "U+011E", "R", "I">>
SECINIZ == <<"S", "e", "c", "i", "n", "i", "z">>
CEYHAN == <<"C", "E", "Y", "H", "A", "N">>
KOZAN == <<"K", "O", "Z", "A", "N">>
YENI_MAH == <<"Y", "E", "N", "U+0130", " ", "M", "A", "H", " ", "/", " ",
              "0", "1", "9", "6", "0">>
KALE == <<"K", "A", "L", "E">>

ProvinceOptions ==
  {Option(<<"1">>, ADANA), Option(<<"4">>, AGRI), Option(Placeholder, SECINIZ)}

DistrictOptions ==
  {Option(<<"7">>, CEYHAN), Option(<<"8">>, KOZAN), Option(Placeholder, SECINIZ)}

NeighborhoodOptions ==
  {Option(<<"3", "/", "5">>, YENI_MAH), Option(<<"3", "\\", "5">>, KALE),
   Option(Placeholder, SECINIZ)}

OptionLists(S, n) == UNION {[1..k -> S] : k \in 0..n}

Blocks(S, n) == {NoSelect} \cup {Select(o) : o \in OptionLists(S, n)}

ErrorPage ==
  [status |-> 500, viewstate |-> NoField, eventvalidation |-> NoField,
   DropDownList1 |-> NoSelect, DropDownList2 |-> NoSelect,
   DropDownList3 |-> NoSelect]

\* the pages the server may answer with: an error, or a page whose hidden
\* fields are missing or hold token t and whose block b1, b2 or b3 is filled
RootPages(n, t) ==
  {ErrorPage} \cup
  {[status |-> 200, viewstate |-> v, eventvalidation |-> e,
    DropDownList1 |-> b, DropDownList2 |-> NoSelect, DropDownList3 |-> NoSelect] :
     v \in {NoField, <<t>>}, e \in {NoField, <<t>>},
     b \in Blocks(ProvinceOptions, n)}

DistrictPages(n, t) ==
  {ErrorPage} \cup
  {[status |-> 200, viewstate |-> v, eventvalidation |-> e,
    DropDownList1 |-> NoSelect, DropDownList2 |-> b, DropDownList3 |-> NoSelect] :
     v \in {NoField, <<t>>}, e \in {NoField, <<t>>},
     b \in Blocks(DistrictOptions, n)}

NeighborhoodPages(n, t) ==
  {ErrorPage} \cup
  {[status |-> 200, viewstate |-> <<t>>, eventvalidation |-> <<t>>,
    DropDownList1 |-> NoSelect, DropDownList2 |-> NoSelect, DropDownList3 |-> b] :
     b \in Blocks(NeighborhoodOptions, n)}

(***************************************************************************)
(* State.  The locals of main() and scrape(), the two files, and a record   *)
(* of the run: the forms posted, the hidden fields of the root page and of  *)
(* every province response, the district list parsed for every province.    *)
(***************************************************************************)
VARIABLES
  pc,                  \* where main() is: start, province, district, scraped,
                       \* saved, done, failed (the exception left main)
  provinces,           \* scrape(): the parsed province list
  province_index,      \* scrape(): the province the outer loop is at
  viewstate,           \* scrape(): the __VIEWSTATE held
  eventvalidation,     \* scrape(): the __EVENTVALIDATION held
  district_html,       \* scrape(): the response to the province POST
  districts,           \* scrape(): the parsed district list
  district_index,      \* scrape(): the district the inner loop is at
  heap,                \* the province dicts built so far, in creation order
  address_data,        \* scrape(): the result list, of references into heap
  total_neighborhoods, \* self.total_neighborhoods
  output_file,         \* PTT/ptt_il_ilce_mahalle.json: <<>> or <<the data>>
  readme_updated,      \* whether update_readme rewrote README.md
  posts,               \* the forms posted so far
  chain,               \* hidden fields of the root page, then of each province response
  parsed_districts,    \* the district list parsed for each province so far
  served,              \* options the server has put into select blocks so far
  fault,               \* a fatal failure happened
  unit_pc,             \* the step of a function checked on its own
  unit_in,             \* its input
  unit_out             \* its results

scrape_vars ==
  <<pc, provinces, province_index, viewstate, eventvalidation, district_html,
    districts, district_index, heap, address_data, total_neighborhoods,
    output_file, readme_updated, posts, chain, parsed_districts, served, fault>>

unit_vars == <<unit_pc, unit_in, unit_out>>

vars == <<scrape_vars, unit_vars>>

\* the token of the response to the next request
NextToken == Len(posts) + 1

\* the province dict the loop is building
current_province == Len(heap)

\* address_data as json.dump writes it
AddressData == [i \in 1..Len(address_data) |-> heap[address_data[i]]]

ScrapeInit ==
  /\ pc = "start"
  /\ provinces = <<>>
  /\ province_index = 0
  /\ viewstate = None
  /\ eventvalidation = None
  /\ district_html = ErrorPage
  /\ districts = <<>>
  /\ district_index = 0
  /\ heap = <<>>
  /\ address_data = <<>>
  /\ total_neighborhoods = 0
  /\ output_file = <<>>
  /\ readme_updated = FALSE
  /\ posts = <<>>
  /\ chain = <<>>
  /\ parsed_districts = <<>>
  /\ served = 0
  /\ fault = FALSE

Init ==
  /\ ScrapeInit
  /\ unit_pc = "off"
  /\ unit_in = <<>>
  /\ unit_out = <<>>

\* scrape(), lines 226-241: the root page, its province list and its tokens
FetchRoot ==
  /\ pc = "start"
  /\ \E html \in RootPages(MaxOptions - served, NextToken) :
       LET found == get_provinces(html)
           tokens == extract_viewstate_and_validation(html)
           raised == \/ raise_for_status(html)
                     \/ found.raised
                     \/ tokens[1] = None
                     \/ tokens[2] = None
       IN /\ served' = served + Len(html.DropDownList1.options)
          /\ chain' = <<<<html.viewstate, html.eventvalidation>>>>
          /\ fault' = \/ html.status >= 400
                      \/ ~html.DropDownList1.present
                      \/ html.viewstate \in {NoField, EmptyField}
                      \/ html.eventvalidation \in {NoField, EmptyField}
          /\ IF raised
               THEN /\ pc' = "failed"
                    /\ UNCHANGED <<provinces, province_index, viewstate,
                                   eventvalidation>>
               ELSE /\ provinces' = found.provinces
                    /\ province_index' = 1
                    /\ viewstate' = tokens[1]
                    /\ eventvalidation' = tokens[2]
                    /\ pc' = IF found.provinces = <<>> THEN "scraped"
                             ELSE "province"
  /\ UNCHANGED <<district_html, districts, district_index, heap, address_data,
                 total_neighborhoods, output_file, readme_updated, posts,
                 parsed_districts, unit_vars>>

\* scrape(), lines 244-275: the POST that selects a province, and what is read
\* from its response; with no district the inner loop and the update of
\* address_data are skipped
SelectProvince ==
  /\ pc = "province"
  /\ LET province_id == provinces[province_index][1]
         province_name == clean_text(provinces[province_index][2])
         form == FormData("DropDownList1", viewstate, eventvalidation,
                          province_id, None)
     IN \E html \in DistrictPages(MaxOptions - served, NextToken + 1) :
          /\ posts' = Append(posts, form)
          /\ served' = served + Len(html.DropDownList2.options)
          /\ fault' = (fault \/ html.status >= 400)
          /\ IF raise_for_status(html)
               THEN /\ pc' = "failed"
                    /\ UNCHANGED <<province_index, viewstate, eventvalidation,
                                   district_html, districts, district_index,
                                   heap, chain, parsed_districts>>
               ELSE LET tokens == next_tokens(<<viewstate, eventvalidation>>, html)
                        found == get_districts(province_id, html)
                    IN /\ district_html' = html
                       /\ viewstate' = tokens[1]
                       /\ eventvalidation' = tokens[2]
                       /\ districts' = found
                       /\ district_index' = 1
                       /\ heap' = Append(heap, [il_id   |-> province_id,
                                                il_adi  |-> province_name,
                                                ilceler |-> <<>>])
                       /\ chain' = Append(chain, <<html.viewstate,
                                                   html.eventvalidation>>)
                       /\ parsed_districts' = Append(parsed_districts, found)
                       /\ IF found # <<>>
                            THEN /\ pc' = "district"
                                 /\ UNCHANGED province_index
                            ELSE /\ province_index' = province_index + 1
                                 /\ pc' = IF province_index < Len(provinces)
                                            THEN "province" ELSE "scraped"
  /\ UNCHANGED <<provinces, address_data, total_neighborhoods, output_file,
                 readme_updated, unit_vars>>

\* scrape(), lines 278-307: one district: get_neighborhoods, the district
\* record appended to the province dict, address_data updated
ProcessDistrict ==
  /\ pc = "district"
  /\ LET province_id == provinces[province_index][1]
         district_id == districts[district_index][1]
         district_name == clean_text(districts[district_index][2])
     IN \E response \in NeighborhoodPages(MaxOptions - served, NextToken + 1) :
          LET got == get_neighborhoods(province_id, district_id,
                                       district_html, response)
              sent == got.posted # NoForm
          IN /\ posts' = posts \o got.posted
             /\ served' = IF sent
                            THEN served + Len(response.DropDownList3.options)
                            ELSE served
             /\ fault' = (fault \/ (sent /\ response.status >= 400))
             /\ IF got.raised
                  THEN /\ pc' = "failed"
                       /\ UNCHANGED <<province_index, district_index, heap,
                                      address_data, total_neighborhoods>>
                  ELSE /\ heap' =
                            [heap EXCEPT ![current_province].ilceler =
                               Append(@, [ilce_id    |-> district_id,
                                          ilce_adi   |-> district_name,
                                          mahalleler |-> got.neighborhoods])]
                       /\ address_data' =
                            update_address_data(address_data, heap,
                                                current_province, province_id)
                       /\ total_neighborhoods' =
                            total_neighborhoods + Len(got.neighborhoods)
                       /\ IF district_index < Len(districts)
                            THEN /\ district_index' = district_index + 1
                                 /\ pc' = "district"
                                 /\ UNCHANGED province_index
                            ELSE /\ province_index' = province_index + 1
                                 /\ UNCHANGED district_index
                                 /\ pc' = IF province_index < Len(provinces)
                                            THEN "province" ELSE "scraped"
  /\ UNCHANGED <<provinces, viewstate, eventvalidation, district_html,
                 districts, output_file, readme_updated, chain,
                 parsed_districts, unit_vars>>

\* main(), line 382: save_to_file writes what scrape() returned
SaveToFile ==
  /\ pc = "scraped"
  /\ output_file' = <<AddressData>>
  /\ pc' = "saved"
  /\ UNCHANGED <<provinces, province_index, viewstate, eventvalidation,
                 district_html, districts, district_index, heap, address_data,
                 total_neighborhoods, readme_updated, posts, chain,
                 parsed_districts, served, fault, unit_vars>>

\* main(), line 387: update_readme rewrites the stamp if README.md exists
UpdateReadme ==
  /\ pc = "saved"
  /\ \E exists \in BOOLEAN : readme_updated' = exists
  /\ pc' = "done"
  /\ UNCHANGED <<provinces, province_index, viewstate, eventvalidation,
                 district_html, districts, district_index, heap, address_data,
                 total_neighborhoods, output_file, posts, chain,
                 parsed_districts, served, fault, unit_vars>>

Next ==
  \/ FetchRoot
  \/ SelectProvince
  \/ ProcessDistrict
  \/ SaveToFile
  \/ UpdateReadme

Spec == Init /\ [][Next]_vars

(***************************************************************************)
(* The pure functions on their own: the input is drawn at the start, the    *)
(* steps apply the function and keep what it returned.                      *)
(***************************************************************************)
Strings(alphabet, n) == UNION {[1..k -> alphabet] : k \in 0..n}

\* clean_id: letters, a digit, the underscore, both slashes, two characters
\* the pattern strips
IdAlphabet == {"a", "Z", "0", "_", "/", "\\", "-", "U+00E7"}

CleanIdInit ==
  /\ ScrapeInit
  /\ unit_pc = "id"
  /\ unit_in \in Strings(IdAlphabet, MaxIdLen)
  /\ unit_out = <<>>

CleanOnce ==
  /\ unit_pc = "id"
  /\ unit_out' = <<clean_id(unit_in)>>
  /\ unit_pc' = "id_once"
  /\ UNCHANGED <<unit_in, scrape_vars>>

CleanTwice ==
  /\ unit_pc = "id_once"
  /\ unit_out' = Append(unit_out, clean_id(unit_out[1]))
  /\ unit_pc' = "id_twice"
  /\ UNCHANGED <<unit_in, scrape_vars>>

CleanIdNext == CleanOnce \/ CleanTwice

SpecCleanId == CleanIdInit /\ [][CleanIdNext]_vars

\* the label post-step: two digits, the separator, a space and a character
\* reference that decodes to the separator
LabelAlphabet == {"1", "2", "/", " ", "&#47;"}

LabelInit ==
  /\ ScrapeInit
  /\ unit_pc = "label"
  /\ unit_in \in Strings(LabelAlphabet, MaxLabelLen)
  /\ unit_out = <<>>

ProcessLabel ==
  /\ unit_pc = "label"
  /\ unit_out' = <<neighborhood_record(<<"3", "/", "5">>, unit_in)>>
  /\ unit_pc' = "label_done"
  /\ UNCHANGED <<unit_in, scrape_vars>>

LabelNext == ProcessLabel

SpecLabel == LabelInit /\ [][LabelNext]_vars

\* the list parsers: a select block of well-formed options whose value is a
\* digit run, the placeholder, a path-like value or empty, and whose label
\* may be empty
ParseOptions ==
  {Option(<<"1">>, ADANA), Option(<<"4", "2">>, KALE),
   Option(Placeholder, SECINIZ), Option(<<"3", "/", "5">>, YENI_MAH),
   Option(<<>>, KALE), Option(<<"7">>, <<>>)}

ParseInit ==
  /\ ScrapeInit
  /\ unit_pc = "block"
  /\ unit_in \in Blocks(ParseOptions, MaxSelectLen)
  /\ unit_out = <<>>

\* a page with state token 1 and the block under the three anchors
ParsePage ==
  [status |-> 200, viewstate |-> <<1>>, eventvalidation |-> <<1>>,
   DropDownList1 |-> unit_in, DropDownList2 |-> unit_in,
   DropDownList3 |-> unit_in]

ParseProvinces ==
  /\ unit_pc = "block"
  /\ unit_out' = <<get_provinces(ParsePage)>>
  /\ unit_pc' = "provinces"
  /\ UNCHANGED <<unit_in, scrape_vars>>

ParseDistricts ==
  /\ unit_pc = "block"
  /\ unit_out' = <<get_districts(<<"1">>, ParsePage)>>
  /\ unit_pc' = "districts"
  /\ UNCHANGED <<unit_in, scrape_vars>>

ParseNeighborhoods ==
  /\ unit_pc = "block"
  /\ unit_out' = <<get_neighborhoods(<<"1">>, <<"7">>, ParsePage, ParsePage)>>
  /\ unit_pc' = "neighborhoods"
  /\ UNCHANGED <<unit_in, scrape_vars>>

ParseNext == ParseProvinces \/ ParseDistricts \/ ParseNeighborhoods

SpecParse == ParseInit /\ [][ParseNext]_vars

(***************************************************************************)
(* The claims.                                                             *)
(***************************************************************************)
Returned == pc \in {"scraped", "saved", "done"}

Ids(list) == [i \in 1..Len(list) |-> list[i][1]]

Unique(seq) == \A i, j \in 1..Len(seq) : i # j => seq[i] # seq[j]

\* C1: when scrape() has returned, address_data holds one record per parsed
\* province, in option order, and each record holds one district record per
\* district parsed from that province's response, whatever their numbers.
C1_OneRecordPerProvince ==
  Returned =>
    /\ Len(address_data) = Len(provinces)
    /\ \A k \in 1..Len(provinces) :
         /\ AddressData[k].il_id = provinces[k][1]
         /\ [j \in 1..Len(AddressData[k].ilceler) |->
               AddressData[k].ilceler[j].ilce_id] = Ids(parsed_districts[k])

\* C2: every form posted, by scrape() or by get_neighborhoods(), carries a
\* present __VIEWSTATE and a present __EVENTVALIDATION.
C2_EveryPostCarriesTokens ==
  \A i \in 1..Len(posts) :
    posts[i].VIEWSTATE # None /\ posts[i].EVENTVALIDATION # None

\* C3: a fatal failure (a non-success status of the GET or of a POST, a root
\* page without the province list or without a state token) ends the run in
\* the re-raised exception with neither file written; the output file is
\* written only once the whole traversal has returned, and holds what it
\* returned; README.md is rewritten only after the output file is written.
C3_NothingPersistedOnFailure ==
  /\ fault => pc = "failed"
  /\ pc = "failed" => output_file = <<>> /\ ~readme_updated
  /\ output_file # <<>> =>
       /\ pc \in {"saved", "done"}
       /\ province_index > Len(provinces)
       /\ Len(parsed_districts) = Len(provinces)
       /\ output_file = <<AddressData>>
  /\ readme_updated => output_file # <<>>

\* a run that failed after part of the tree had been built
C3_Witness ==
  pc = "failed" /\ fault /\ address_data # <<>> /\ output_file = <<>>

TokensMissing(html) ==
  html.viewstate \in {NoField, EmptyField}
    \/ html.eventvalidation \in {NoField, EmptyField}

\* C4: a district processed while the province response lacks a state token:
\* no form is posted, nothing is raised, the district is recorded with an
\* empty neighborhood list, and the loops go on to the next district, to the
\* next province, or return.
C4_MissingTokensSkipOnlyTheNeighborhoods ==
  [][(pc = "district" /\ TokensMissing(district_html)) =>
       /\ posts' = posts
       /\ pc' # "failed"
       /\ fault' = fault
       /\ heap'[current_province].ilceler =
            Append(heap[current_province].ilceler,
                   [ilce_id    |-> districts[district_index][1],
                    ilce_adi   |-> clean_text(districts[district_index][2]),
                    mahalleler |-> <<>>])
       /\ IF district_index < Len(districts)
            THEN pc' = "district" /\ district_index' = district_index + 1
                 /\ province_index' = province_index
            ELSE IF province_index < Len(provinces)
              THEN pc' = "province" /\ province_index' = province_index + 1
              ELSE pc' = "scraped"]_vars

\* the second province is reached after a district of the first was recorded
\* without neighborhoods and without any POST of get_neighborhoods
C4_Witness ==
  /\ pc = "province"
  /\ province_index = 2
  /\ TokensMissing(district_html)
  /\ Len(posts) = 1
  /\ Len(heap[1].ilceler) = 1
  /\ heap[1].ilceler[1].mahalleler = <<>>
  /\ address_data = <<1>>

\* C5: in the assembled tree no two districts of a province share an ilce_id
\* and no two neighborhoods of a district share a mahalle_id.
C5_IdentifiersUnique ==
  \A k \in 1..Len(address_data) :
    LET ilceler == AddressData[k].ilceler
    IN /\ Unique([j \in 1..Len(ilceler) |-> ilceler[j].ilce_id])
       /\ \A j \in 1..Len(ilceler) :
            Unique([m \in 1..Len(ilceler[j].mahalleler) |->
                      ilceler[j].mahalleler[m].mahalle_id])

\* an option the province and district patterns read: a digit run as value
RealNumericOption(o) ==
  /\ o.value # Placeholder
  /\ o.value # <<>>
  /\ \A i \in 1..Len(o.value) : o.value[i] \in Digits
  /\ o.label # <<>>

\* an option the neighborhood pattern reads: any value but the placeholder's
RealOption(o) == o.value # Placeholder /\ o.value # <<>> /\ o.label # <<>>

\* C6: the list a parser returns for a select block holds no entry whose
\* identifier is "-1", and holds every real option of the block, in markup
\* order (for provinces and districts the (value, label) pairs; for
\* neighborhoods the record made of each).
C6_PlaceholderExcluded ==
  LET real == SelectSeq(unit_in.options, RealNumericOption)
      pairs == [i \in 1..Len(real) |-> <<real[i].value, real[i].label>>]
      any == SelectSeq(unit_in.options, RealOption)
  IN /\ unit_pc = "provinces" =>
          /\ unit_out[1].provinces = pairs
          /\ \A i \in 1..Len(unit_out[1].provinces) :
               unit_out[1].provinces[i][1] # Placeholder
     /\ unit_pc = "districts" =>
          /\ unit_out[1] = (IF unit_in.present THEN pairs ELSE <<>>)
          /\ \A i \in 1..Len(unit_out[1]) : unit_out[1][i][1] # Placeholder
     /\ unit_pc = "neighborhoods" =>
          /\ unit_out[1].neighborhoods =
               [i \in 1..Len(any) |->
                  neighborhood_record(any[i].value, any[i].label)]
          /\ \A i \in 1..Len(unit_out[1].neighborhoods) :
               unit_out[1].neighborhoods[i].mahalle_id # Placeholder

\* the placeholder stands between two real options, and both are returned
C6_Witness ==
  /\ unit_pc = "neighborhoods"
  /\ Len(unit_in.options) = 3
  /\ unit_in.options[2].value = Placeholder
  /\ Len(unit_out[1].neighborhoods) = 2

\* the indexes at which the normalised label holds PostalLen digits in a row
DigitRuns(label) ==
  {i \in 1..Len(label) :
     i + PostalLen - 1 <= Len(label)
       /\ \A k \in i..(i + PostalLen - 1) : label[k] \in Digits}

Slashes(label) == {i \in 1..Len(label) : label[i] = "/"}

\* C7: posta_kodu is the (leftmost) 5-digit substring of the normalised
\* label, and is absent when the label holds no 5-digit run; mahalle_adi is
\* the label up to its first "/", without the "/", what follows it and the
\* spaces in front of it; the record is emitted either way.
C7_PostalCodeAndName ==
  unit_pc = "label_done" =>
    LET label == clean_text(unit_in)
        rec == unit_out[1]
        name == rec.mahalle_adi
    IN /\ DOMAIN rec = {"mahalle_id", "mahalle_adi", "posta_kodu"}
       /\ IF DigitRuns(label) = {} THEN rec.posta_kodu = None
          ELSE \E i \in DigitRuns(label) :
                 /\ \A g \in DigitRuns(label) : i <= g
                 /\ rec.posta_kodu = SubSeq(label, i, i + PostalLen - 1)
       /\ IF Slashes(label) = {} THEN name = label
          ELSE \E j \in Slashes(label) :
                 /\ \A g \in Slashes(label) : j <= g
                 /\ Len(name) < j
                 /\ name = SubSeq(label, 1, Len(name))
                 /\ \A k \in (Len(name) + 1)..(j - 1) : label[k] \in Whitespace
                 /\ name # <<>> => name[Len(name)] \notin Whitespace

\* a 5-digit run, then "/" and a suffix
C7_Witness ==
  /\ unit_pc = "label_done"
  /\ unit_in = <<"1", "2", "1", "2", "1", "/", "2">>
  /\ unit_out[1].posta_kodu = <<"1", "2", "1", "2", "1">>
  /\ unit_out[1].mahalle_adi = <<"1", "2", "1", "2", "1">>

\* C8: cleaning a cleaned identifier returns it unchanged, and an identifier
\* made of ASCII letters, digits and underscores only is returned unchanged.
C8_CleanIdIdempotent ==
  /\ unit_pc = "id_twice" => unit_out[2] = unit_out[1]
  /\ (unit_pc \in {"id_once", "id_twice"}
        /\ \A i \in 1..Len(unit_in) : unit_in[i] \in IdChars)
       => unit_out[1] = unit_in

\* an identifier that cleaning changed, cleaned twice
C8_Witness ==
  /\ unit_pc = "id_twice"
  /\ unit_in = <<"a", "/", "-">>
  /\ unit_out = <<<<"a", "_">>, <<"a", "_">>>>

\* the number of province POSTs among the first i forms posted
RECURSIVE ProvincePosts(_)
ProvincePosts(i) ==
  IF i = 0 THEN 0
  ELSE ProvincePosts(i - 1)
         + (IF posts[i].EVENTTARGET = "DropDownList1" THEN 1 ELSE 0)

TokensOf(fields) == <<hidden_value(fields[1]), hidden_value(fields[2])>>

\* C9: the POST selecting province k carries the tokens of the previous
\* response of the province chain (the root page for k = 1, else the response
\* to province k-1), and every POST of get_neighborhoods for a district of
\* province k carries the tokens of the response to province k.
C9_TokensFollowTheProvinceChain ==
  \A i \in 1..Len(posts) :
    LET k == ProvincePosts(i)
        sent == <<posts[i].VIEWSTATE, posts[i].EVENTVALIDATION>>
    IN /\ posts[i].DropDownList1 = provinces[k][1]
       /\ IF posts[i].EVENTTARGET = "DropDownList1"
            THEN sent = TokensOf(chain[k])
            ELSE sent = TokensOf(chain[k + 1])

\* two districts of the first province, then the second province
C9_Witness ==
  /\ Len(posts) = 4
  /\ posts[2].EVENTTARGET = "DropDownList2"
  /\ posts[3].EVENTTARGET = "DropDownList2"
  /\ posts[4].EVENTTARGET = "DropDownList1"
  /\ posts[3].VIEWSTATE = <<2>>
  /\ posts[4].VIEWSTATE = <<2>>

NoRevisit == Unique(Ids(provinces))

\* C10: address_data never holds two adjacent records with the same il_id;
\* and when no province identifier repeats, the replacement of the last entry
\* by the current province record changes nothing: the entry is that record.
C10_NoAdjacentDuplicates ==
  /\ [](\A i \in 1..(Len(address_data) - 1) :
          AddressData[i].il_id # AddressData[i + 1].il_id)
  /\ [][(/\ pc = "district"
         /\ NoRevisit
         /\ address_data # <<>>
         /\ heap[address_data[Len(address_data)]].il_id
              = provinces[province_index][1]
         /\ pc' # "failed")
        => (/\ address_data' = address_data
            /\ address_data[Len(address_data)] = current_province)]_vars

\* the second district of a province has been processed: the entry was replaced
C10_Witness ==
  /\ NoRevisit
  /\ address_data = <<1>>
  /\ Len(heap[1].ilceler) = 2

=============================================================================
